---- MODULE Spec2Model ----
(***************************************************************************)
(* Model of the resource lifecycle of translate-offline-ai:                *)
(*   ModelManager  (services/modelManager.ts)  - lazy model loading, the   *)
(*                  single-flight request queue, the idle-unload timer and *)
(*                  the app-state handler;                                 *)
(*   MemoryManager (utils/memoryManager.ts)    - the priority cache;       *)
(* and of their clients:                                                   *)
(*   OptimizedTranslationService - the translation memo;                   *)
(*   App and OptimizedSpeechService - recording, auto-stop, the preference.*)
(* JavaScript runs every handler to its next await without interleaving:   *)
(* one action is one such run.  The only run that is split in two is the   *)
(* body of loadGemmaModel/loadTTSModel (status write at line 130, memory   *)
(* check at line 136); while a caller stands between the two (pc =         *)
(* "checking") no other action is enabled.                                 *)
(*                                                                         *)
(* Spec      the model manager as shipped: configured footprints 256/150,  *)
(*           a backend load that always resolves.                          *)
(* SpecFault the same actions with the failure paths opened: footprints    *)
(*           that do not fit together, and an awaited backend load that    *)
(*           may reject (the catch blocks of lines 155-165 and 203-213).   *)
(* SpecMem   loads and unloads from outside the queue together with the    *)
(*           cache inserts and the forced cleanup of the memory manager.   *)
(* SpecIdle  loads and the idle-unload timer in a foregrounded app, under  *)
(*           a clock: a timer callback runs at or after its delay.         *)
(* SpecCache the priority cache under a clock: inserts, removals, expiry,  *)
(*           the periodic and the background cleanup.                      *)
(* SpecStats the priority cache with payloads of two sizes (accounting).   *)
(* SpecSweep the priority cache while its interval timer stays armed,      *)
(*           weakly fair to the timer's callback.                          *)
(* SpecTranslate  the translation memo under a clock.                      *)
(* SpecApp   recordings, their processing and the language picker.         *)
(* SpecQueue the request queue with loads and operations that terminate,   *)
(*           weakly fair to every continuation that is ready.              *)
(* SpecRequest   translateText through the memo and the queue.             *)
(* SpecRecorder  startRecording / stopRecording calls in any interleaving  *)
(*           of their awaits, with the silence monitor.                    *)
(* SpecStream    the chunk buffer of streamed speech.                      *)
(* In Spec, SpecFault and SpecMem the clock stands still and a pending     *)
(* timer may run its callback at any step.                                 *)
(***************************************************************************)
EXTENDS Integers, Sequences, FiniteSets, TLC

\* ---------------------------------------------------------------- bounds
MaxTasks == 3
MaxDirect == 1
MaxKeys == 2
MaxTicks == 2
\* capacity of the translation memo, standing for MAX_CACHE_SIZE = 500
MaxCacheSize == 3
\* calls of translateText tried
MaxCalls == 2
\* calls of startRecording / stopRecording tried, and chunks streamed
MaxRecCalls == 4
MaxChunks == 12

\* ------------------------------------------------------ program constants
AvailableMemory == 512
GemmaMemoryLimit == 256
TTSMemoryLimit == 150
MEMORY_THRESHOLD_TENTHS == 8
CACHE_EXPIRY == 3600000
BaseMemory == 512
ModelMemory == 256
TotalMemoryIOS == 4096
TotalMemoryAndroid == 8192
GemmaLoadTimeout == 30000
TTSLoadTimeout == 15000
GemmaUnloadDelay == 300000
TTSUnloadDelay == 600000
LoadDelay == 2000
CLEANUP_INTERVAL == 300000
CACHE_EXPIRY_HOURS == 24
SILENCE_TIMEOUT == 5000
MAX_AUDIO_CHUNKS == 10

Resources == {"gemma", "tts"}
Tasks == 1..MaxTasks
Directs == {100 + i : i \in 1..MaxDirect}
Callers == Tasks \cup Directs
NoTask == 0
NoInterval == 0

ShippedLimits == [r \in Resources |-> IF r = "gemma" THEN GemmaMemoryLimit ELSE TTSMemoryLimit]
\* footprints tried in the fault-injection specification: the shipped ones
\* and a pair that cannot both fit in AvailableMemory
LimitChoices == {ShippedLimits, [r \in Resources |-> IF r = "gemma" THEN 400 ELSE TTSMemoryLimit]}

loadTimeout == [r \in Resources |-> IF r = "gemma" THEN GemmaLoadTimeout ELSE TTSLoadTimeout]
unloadDelay == [r \in Resources |-> IF r = "gemma" THEN GemmaUnloadDelay ELSE TTSUnloadDelay]

CacheKeys == 1..MaxKeys
\* estimateDataSize of the payloads tried: one such entry lifts usedMemory
\* over 80% of an iOS device's total, two lift it over 80% of any other's
CacheSizes == {3000}
\* payloads for the accounting of the cache: on an iOS device two of the
\* smaller stay under the threshold, one of the larger goes over it
PayloadSizes == {1000, 3000}
\* cache keys of the translation requests tried: one more than fits
TranslationKeys == 1..(MaxCacheSize + 1)
\* translated texts tried, and the calls of translateText
Texts == {"namaste", "hola"}
\* cache keys of the requests that go through the queue
RequestKeys == {1, 2}
Calls == 1..MaxCalls
\* the calls of startRecording / stopRecording, and the audio levels sampled:
\* below the threshold of 10, or at or above it
RecCalls == 1..MaxRecCalls
AudioLevels == {"silent", "loud"}
\* the data of the chunks streamed
ChunkData == {"a", "b"}
Priorities == {1, 2, 3}
\* how far the clock moves between two handler runs: the delay of the
\* simulated load, the cleanup interval (also gemma's unload delay), and the
\* cache expiry
TickSteps == {LoadDelay, CLEANUP_INTERVAL, CACHE_EXPIRY}

NoStatus == [isLoaded |-> FALSE, isLoading |-> FALSE, lastUsed |-> 0, memoryUsage |-> 0, error |-> "undefined"]
NoTimer == [key |-> "none", due |-> 0]
NoItem == [key |-> 0, size |-> 0, timestamp |-> 0, priority |-> 0]

\* language codes tried, of SUPPORTED_LANGUAGES
Languages == {"en", "hi", "ta"}
DefaultPreference == "hi"
NoCall == [key |-> 0, at |-> "none", task |-> 0, text |-> "null", tokensUsed |-> 0]
NoPreference == "null"
\* silenceStartTime = 0 in the source, where Date.now() is never 0; the
\* clock of the model starts at 0
NoSilence == 0 - 1

VARIABLES
  memoryLimit,        \* GEMMA_CONFIG.memoryLimit / TTS_CONFIG.memoryLimit
  backendFails,       \* TRUE iff the awaited backend load may reject
  platformOS,         \* Platform.OS
  cacheItems,         \* MemoryManager.cacheItems, in Map insertion order
  now,                \* Date.now()
  ticks,              \* number of clock moves so far
  cleanupInterval,    \* when MemoryManager's interval timer is next due, or NoInterval
  modelStatus,        \* ModelManager.modelStatus (NoStatus = no entry)
  modelObj,           \* gemmaModel / ttsModel is non-null
  unloadTimer,        \* the pending idle-unload timer (its key and due time), or NoTimer
  isBackgrounded,
  requestQueue,       \* queued task closures, by task id
  isProcessingQueue,
  draining,           \* the task whose closure processQueue awaits
  pc,                 \* position of every caller
  target,             \* the resource a caller's load is for
  settled,            \* what was delivered to the task's promise
  settleCount,        \* number of resolve/reject calls on the task's promise
  settleOrder,        \* task ids in the order their promises settled
  translationCache,   \* OptimizedTranslationService.translationCache, in Map insertion order
  translateCalls,     \* every call of translateText: its cache key, position, task and response
  appRecording,       \* App's isRecording state
  svcRecording,       \* OptimizedSpeechService.isRecording, with a recording object held
  svcStop,            \* the stopRecording call that awaits stopAndUnloadAsync
  silenceStartTime,   \* OptimizedSpeechService.silenceStartTime
  appPc,              \* position of App.processAudioRecording
  userPreference,     \* App's userPreference state
  storedPreference,   \* the value under 'userLanguagePreference' in AsyncStorage
  closurePref,        \* userPreference as bound in the closure that processes the audio
  detected,           \* the language detected in the recording being processed
  translatedTo,       \* toLang of the last translateText call of processAudioRecording
  recording,          \* OptimizedSpeechService.recording is non-null
  liveRecordings,     \* Audio.Recording objects created and not yet stopped and unloaded
  silenceTimer,       \* the 100 ms timer of monitorAudioLevel is pending
  recCalls,           \* position or outcome of every startRecording / stopRecording call
  levelCalls,         \* parity of the onAudioLevelChange invocations
  quietSince,         \* time of the first of the samples below the threshold that followed the last one at or above it
  audioChunks,        \* OptimizedSpeechService.audioChunks
  arrived             \* every chunk added since audioChunks was last emptied, in order

vars == <<memoryLimit, backendFails, platformOS, cacheItems, now, ticks, cleanupInterval, modelStatus, modelObj, unloadTimer,
          isBackgrounded, requestQueue, isProcessingQueue, draining, pc,
          target, settled, settleCount, settleOrder,
          translationCache, translateCalls, appRecording, svcRecording, svcStop, silenceStartTime,
          appPc, userPreference, storedPreference, closurePref, detected, translatedTo,
          recording, liveRecordings, silenceTimer, recCalls, levelCalls, quietSince, audioChunks, arrived>>

envVars == <<memoryLimit, backendFails, platformOS>>
memVars == <<cacheItems, now, ticks, cleanupInterval>>
queueVars == <<requestQueue, isProcessingQueue, draining>>
taskVars == <<settled, settleCount, settleOrder>>
recVars == <<appRecording, svcRecording, svcStop, silenceStartTime>>
prefVars == <<userPreference, storedPreference, closurePref, detected, translatedTo>>
memoVars == <<translationCache, translateCalls>>
monitorVars == <<silenceTimer, levelCalls, quietSince>>
chunkVars == <<audioChunks, arrived>>
speechVars == <<recording, liveRecordings, recCalls, monitorVars, chunkVars>>
clientVars == <<memoVars, recVars, speechVars, appPc, prefVars>>
managerVars == <<envVars, memVars, modelStatus, modelObj, unloadTimer, isBackgrounded, queueVars, pc, target, taskVars>>

\* ------------------------------------------------------------ ModelManager
IsLoaded(r) == modelStatus[r].isLoaded
IsLoading(r) == modelStatus[r].isLoading

RECURSIVE SumUsage(_, _)
SumUsage(st, rs) ==
  IF rs = {} THEN 0
  ELSE LET r == CHOOSE x \in rs : TRUE
       IN st[r].memoryUsage + SumUsage(st, rs \ {r})

getCurrentMemoryUsage(st) == SumUsage(st, Resources)

\* a check that forgets what is already committed
checkMemoryIgnoringUsage(st, requiredMB) ==
  AvailableMemory >= requiredMB

checkMemoryAvailability(st, requiredMB) ==
  (AvailableMemory - getCurrentMemoryUsage(st)) >= requiredMB

NoSyncBlock == \A c \in Callers : pc[c] # "checking"

\* where a caller stands once its load call has returned or thrown: a task's
\* closure goes on to the operation body, or to its catch (reject); a direct
\* caller has its answer
AfterLoadOk(c) == IF c \in Tasks THEN "op" ELSE "ret_ok"
AfterLoadErr(c) == IF c \in Tasks THEN "done" ELSE "ret_err"

\* a head without the isLoading branch of lines 124-128
EnterPcNoJoin(c, r) ==
  IF IsLoaded(r) THEN AfterLoadOk(c) ELSE "checking"

\* lines 117-130 (169-181): the synchronous head of loadGemmaModel/loadTTSModel
EnterPc(c, r) ==
  IF IsLoaded(r) THEN AfterLoadOk(c)
  ELSE IF IsLoading(r) THEN "waiting"
  ELSE "checking"

EnterStatus(r) ==
  IF IsLoaded(r) \/ IsLoading(r) THEN modelStatus
  ELSE [modelStatus EXCEPT ![r] =
          [isLoaded |-> FALSE, isLoading |-> TRUE, lastUsed |-> now, memoryUsage |-> 0, error |-> "none"]]

\* a catch block that records the error but leaves isLoading set
FailedStatusStuck(r, msg) ==
  [modelStatus EXCEPT ![r] =
     [isLoaded |-> FALSE, isLoading |-> TRUE, lastUsed |-> now, memoryUsage |-> 0, error |-> msg]]

\* the catch block, lines 155-165 (203-213)
FailedStatus(r, msg) ==
  [modelStatus EXCEPT ![r] =
     [isLoaded |-> FALSE, isLoading |-> FALSE, lastUsed |-> now, memoryUsage |-> 0, error |-> msg]]

\* a success path that forgets to clear isLoading
LoadedStatusKeepsLoading(r) ==
  [modelStatus EXCEPT ![r] =
     [isLoaded |-> TRUE, isLoading |-> TRUE, lastUsed |-> now, memoryUsage |-> memoryLimit[r], error |-> "none"]]

\* lines 143-148 (192-197)
LoadedStatus(r) ==
  [modelStatus EXCEPT ![r] =
     [isLoaded |-> TRUE, isLoading |-> FALSE, lastUsed |-> now, memoryUsage |-> memoryLimit[r], error |-> "none"]]

\* scheduleModelUnload: cancelUnloadTimer, then arm the one shared timer
scheduleModelUnload(r) == [key |-> r, due |-> now + unloadDelay[r]]

\* unloadGemmaModel / unloadTTSModel: guarded by the model object
unloadModel(st, r) ==
  IF modelObj[r]
  THEN [st EXCEPT ![r] = [isLoaded |-> FALSE, isLoading |-> FALSE, lastUsed |-> now, memoryUsage |-> 0, error |-> "none"]]
  ELSE st

\* resolve(result) / reject(error) on a task's promise: a promise keeps its
\* first settlement
Resolve(t) ==
  [settled EXCEPT ![t] = IF @ = "pending" THEN "resolved" ELSE @]

Reject(t, err) ==
  [settled EXCEPT ![t] = IF @ = "pending" THEN err ELSE @]

\* the closure's catch (lines 238-240) when the load threw in task c
RejectedByLoad(c, err) ==
  IF c \in Tasks THEN Reject(c, err) ELSE settled

\* a closure that has finished no longer holds its resource key
Forget(c) == [target EXCEPT ![c] = "gemma"]

CountSettle(c) ==
  IF c \in Tasks THEN [settleCount EXCEPT ![c] = @ + 1] ELSE settleCount

OrderSettle(c) ==
  IF c \in Tasks THEN Append(settleOrder, c) ELSE settleOrder

\* the clients of the two managers after construction, on a fresh install:
\* an empty translation memo, no recording, the default preference, nothing
\* stored
InitClients ==
  /\ translationCache = <<>>
  /\ translateCalls = [c \in Calls |-> NoCall]
  /\ appRecording = FALSE
  /\ svcRecording = FALSE
  /\ svcStop = "none"
  /\ silenceStartTime = NoSilence
  /\ appPc = "idle"
  /\ userPreference = DefaultPreference
  /\ storedPreference = NoPreference
  /\ closurePref = DefaultPreference
  /\ detected = "en"
  /\ translatedTo = "none"
  /\ recording = FALSE
  /\ liveRecordings = 0
  /\ silenceTimer = FALSE
  /\ recCalls = [c \in RecCalls |-> "none"]
  /\ levelCalls = 0
  /\ quietSince = NoSilence
  /\ audioChunks = <<>>
  /\ arrived = <<>>

InitManager ==
  /\ cacheItems = <<>>
  /\ now = 0
  /\ ticks = 0
  /\ cleanupInterval = CLEANUP_INTERVAL
  /\ modelStatus = [r \in Resources |-> NoStatus]
  /\ modelObj = [r \in Resources |-> FALSE]
  /\ unloadTimer = NoTimer
  /\ isBackgrounded = FALSE
  /\ requestQueue = <<>>
  /\ isProcessingQueue = FALSE
  /\ draining = NoTask
  /\ pc = [c \in Callers |-> "idle"]
  /\ target = [c \in Callers |-> "gemma"]
  /\ settled = [t \in Tasks |-> "pending"]
  /\ settleCount = [t \in Tasks |-> 0]
  /\ settleOrder = <<>>
  /\ InitClients

Init ==
  /\ memoryLimit = ShippedLimits
  /\ backendFails = FALSE
  /\ platformOS = "ios"
  /\ InitManager

InitFault ==
  /\ memoryLimit \in LimitChoices
  /\ backendFails \in BOOLEAN
  /\ platformOS = "ios"
  /\ InitManager

InitMem ==
  /\ memoryLimit = ShippedLimits
  /\ backendFails = FALSE
  /\ platformOS \in {"ios", "android"}
  /\ InitManager

\* processQueue without its isProcessingQueue guard: every submission starts
\* the head of the queue at once
SubmitUnguarded(t, r) ==
  /\ NoSyncBlock
  /\ pc[t] = "idle"
  /\ \A u \in Tasks : u < t => pc[u] # "idle"
  /\ target' = [target EXCEPT ![t] = r]
  /\ LET q == Append(requestQueue, t)
         h == Head(q)
         hr == IF h = t THEN r ELSE target[h] IN
     /\ isProcessingQueue' = TRUE
     /\ requestQueue' = Tail(q)
     /\ draining' = h
     /\ pc' = [[pc EXCEPT ![t] = "queued"] EXCEPT ![h] = EnterPc(h, hr)]
     /\ modelStatus' = EnterStatus(hr)
  /\ UNCHANGED <<envVars, clientVars, memVars, modelObj, unloadTimer, isBackgrounded, taskVars>>

\* executeWithGemma / executeWithTTS: push the closure, call processQueue.
\* processQueue returns at once when a drain loop is active; otherwise it
\* takes the flag, shifts the head and runs its closure up to the first await
\* (the head of loadGemmaModel / loadTTSModel).
executeWith(t, r) ==
  /\ NoSyncBlock
  /\ pc[t] = "idle"
  /\ \A u \in Tasks : u < t => pc[u] # "idle"
  /\ target' = [target EXCEPT ![t] = r]
  /\ LET q == Append(requestQueue, t) IN
     IF isProcessingQueue
     THEN /\ requestQueue' = q
          /\ pc' = [pc EXCEPT ![t] = "queued"]
          /\ UNCHANGED <<isProcessingQueue, draining, modelStatus>>
     ELSE LET h == Head(q)
              hr == IF h = t THEN r ELSE target[h] IN
          /\ isProcessingQueue' = TRUE
          /\ requestQueue' = Tail(q)
          /\ draining' = h
          /\ pc' = [[pc EXCEPT ![t] = "queued"] EXCEPT ![h] = EnterPc(h, hr)]
          /\ modelStatus' = EnterStatus(hr)
  /\ UNCHANGED <<envVars, memVars, modelObj, unloadTimer, isBackgrounded, taskVars>>

\* a task submitted by a caller other than the translation service
Submit(t, r) ==
  /\ executeWith(t, r)
  /\ UNCHANGED clientVars

\* a call of the public loadGemmaModel / loadTTSModel from outside the queue
DirectLoad(d, r) ==
  /\ NoSyncBlock
  /\ pc[d] = "idle"
  /\ \A e \in Directs : e < d => pc[e] # "idle"
  /\ target' = [target EXCEPT ![d] = r]
  /\ pc' = [pc EXCEPT ![d] = EnterPc(d, r)]
  /\ modelStatus' = EnterStatus(r)
  /\ UNCHANGED <<envVars, clientVars, memVars, modelObj, unloadTimer, isBackgrounded, queueVars, taskVars>>

\* lines 132-141 (183-190): the memory check; a refusal runs the catch block
\* and, in a task, the closure's catch
LoadCheck(c) ==
  /\ pc[c] = "checking"
  /\ IF checkMemoryAvailability(modelStatus, memoryLimit[target[c]])
     THEN /\ pc' = [pc EXCEPT ![c] = "loading"]
          /\ UNCHANGED <<modelStatus, target, taskVars>>
     ELSE /\ pc' = [pc EXCEPT ![c] = AfterLoadErr(c)]
          /\ modelStatus' = FailedStatus(target[c], "memory")
          /\ target' = IF c \in Tasks THEN Forget(c) ELSE target
          /\ settled' = RejectedByLoad(c, "rejected")
          /\ settleCount' = CountSettle(c)
          /\ settleOrder' = OrderSettle(c)
  /\ UNCHANGED <<envVars, clientVars, memVars, modelObj, unloadTimer, isBackgrounded, queueVars>>

\* loadQuantizedModel settles: lines 143-153 on success, the catch otherwise
BackendDone(c) ==
  /\ NoSyncBlock
  /\ pc[c] = "loading"
  /\ \E ok \in (IF backendFails THEN BOOLEAN ELSE {TRUE}) :
       IF ok
       THEN /\ modelStatus' = LoadedStatus(target[c])
            /\ unloadTimer' = scheduleModelUnload(target[c])
            /\ pc' = [pc EXCEPT ![c] = AfterLoadOk(c)]
            /\ target' = IF c \in Tasks THEN target ELSE Forget(c)
            /\ UNCHANGED taskVars
       ELSE /\ modelStatus' = FailedStatus(target[c], "backend")
            /\ pc' = [pc EXCEPT ![c] = AfterLoadErr(c)]
            /\ target' = IF c \in Tasks THEN Forget(c) ELSE target
            /\ settled' = RejectedByLoad(c, "rejected")
            /\ settleCount' = CountSettle(c)
            /\ settleOrder' = OrderSettle(c)
            /\ UNCHANGED unloadTimer
  /\ UNCHANGED <<envVars, clientVars, memVars, modelObj, isBackgrounded, queueVars>>

\* waitForModelLoad: a poll that finds the entry no longer loading resolves,
\* and loadGemmaModel / loadTTSModel returns (lines 126-127)
PollDone(c) ==
  /\ NoSyncBlock
  /\ pc[c] = "waiting"
  /\ modelStatus[target[c]] # NoStatus
  /\ ~IsLoading(target[c])
  /\ pc' = [pc EXCEPT ![c] = AfterLoadOk(c)]
  /\ target' = IF c \in Tasks THEN target ELSE Forget(c)
  /\ UNCHANGED <<envVars, clientVars, memVars, modelStatus, modelObj, unloadTimer, isBackgrounded, queueVars, taskVars>>

\* the direct caller has its answer and is free to call again
DirectReturn(d) ==
  /\ NoSyncBlock
  /\ d \in Directs
  /\ pc[d] \in {"ret_ok", "ret_err", "ret_unload", "ret_force"}
  /\ pc' = [pc EXCEPT ![d] = "idle"]
  /\ target' = Forget(d)
  /\ UNCHANGED <<envVars, clientVars, memVars, modelStatus, modelObj, unloadTimer, isBackgrounded, queueVars, taskVars>>

\* a closure that resolves in a finally clause: a failed operation calls
\* reject and then resolve
OpDoneSettlingTwice(t) ==
  /\ NoSyncBlock
  /\ t \in Tasks
  /\ pc[t] = "op"
  /\ \E ok \in BOOLEAN :
       /\ settled' = IF ok THEN Resolve(t) ELSE Reject(t, "rejected")
       /\ settleCount' = [settleCount EXCEPT ![t] = @ + (IF ok THEN 1 ELSE 2)]
  /\ settleOrder' = OrderSettle(t)
  /\ pc' = [pc EXCEPT ![t] = "done"]
  /\ target' = Forget(t)
  /\ UNCHANGED <<envVars, clientVars, memVars, modelStatus, modelObj, unloadTimer, isBackgrounded, queueVars>>

\* a drain loop without the closure's catch: a failed operation escapes,
\* the loop stops and the closures behind it are dropped
OpDoneAborting(t) ==
  /\ NoSyncBlock
  /\ t \in Tasks
  /\ pc[t] = "op"
  /\ \E ok \in BOOLEAN :
       /\ settled' = IF ok THEN Resolve(t) ELSE Reject(t, "rejected")
       /\ requestQueue' = IF ok THEN requestQueue ELSE <<>>
  /\ settleCount' = CountSettle(t)
  /\ settleOrder' = OrderSettle(t)
  /\ pc' = [pc EXCEPT ![t] = "done"]
  /\ target' = Forget(t)
  /\ UNCHANGED <<envVars, clientVars, memVars, modelStatus, modelObj, unloadTimer, isBackgrounded, isProcessingQueue, draining>>

\* a closure whose catch also marks the resource as failed
OpDoneUnloading(t) ==
  /\ NoSyncBlock
  /\ t \in Tasks
  /\ pc[t] = "op"
  /\ \E ok \in BOOLEAN :
       /\ settled' = IF ok THEN Resolve(t) ELSE Reject(t, "rejected")
       /\ modelStatus' = IF ok THEN modelStatus ELSE FailedStatus(target[t], "backend")
  /\ settleCount' = CountSettle(t)
  /\ settleOrder' = OrderSettle(t)
  /\ pc' = [pc EXCEPT ![t] = "done"]
  /\ target' = Forget(t)
  /\ UNCHANGED <<envVars, clientVars, memVars, modelObj, unloadTimer, isBackgrounded, queueVars>>

\* the operation body settles: resolve(result), or the catch's reject(error)
OpDone(t) ==
  /\ NoSyncBlock
  /\ t \in Tasks
  /\ pc[t] = "op"
  /\ \E ok \in BOOLEAN :
       settled' = IF ok THEN Resolve(t) ELSE Reject(t, "rejected")
  /\ settleCount' = CountSettle(t)
  /\ settleOrder' = OrderSettle(t)
  /\ pc' = [pc EXCEPT ![t] = "done"]
  /\ target' = Forget(t)
  /\ UNCHANGED <<envVars, clientVars, memVars, modelStatus, modelObj, unloadTimer, isBackgrounded, queueVars>>

\* a drain loop that pops the newest closure (pop instead of shift)
DrainNextNewest ==
  /\ NoSyncBlock
  /\ draining # NoTask
  /\ pc[draining] = "done"
  /\ IF Len(requestQueue) > 0
     THEN LET h == requestQueue[Len(requestQueue)] IN
          /\ requestQueue' = SubSeq(requestQueue, 1, Len(requestQueue) - 1)
          /\ draining' = h
          /\ pc' = [pc EXCEPT ![h] = EnterPc(h, target[h])]
          /\ modelStatus' = EnterStatus(target[h])
          /\ UNCHANGED isProcessingQueue
     ELSE /\ isProcessingQueue' = FALSE
          /\ draining' = NoTask
          /\ UNCHANGED <<requestQueue, pc, modelStatus>>
  /\ UNCHANGED <<envVars, clientVars, memVars, modelObj, unloadTimer, isBackgrounded, target, taskVars>>

\* a drain loop that handles one closure and releases the flag (an if in
\* place of the while of line 270)
DrainNextOnce ==
  /\ NoSyncBlock
  /\ draining # NoTask
  /\ pc[draining] = "done"
  /\ isProcessingQueue' = FALSE
  /\ draining' = NoTask
  /\ UNCHANGED <<requestQueue, pc, modelStatus>>
  /\ UNCHANGED <<envVars, clientVars, memVars, modelObj, unloadTimer, isBackgrounded, target, taskVars>>

\* processQueue after `await operation()`: next iteration, or release the flag
DrainNext ==
  /\ NoSyncBlock
  /\ draining # NoTask
  /\ pc[draining] = "done"
  /\ IF Len(requestQueue) > 0
     THEN LET h == Head(requestQueue) IN
          /\ requestQueue' = Tail(requestQueue)
          /\ draining' = h
          /\ pc' = [pc EXCEPT ![h] = EnterPc(h, target[h])]
          /\ modelStatus' = EnterStatus(target[h])
          /\ UNCHANGED isProcessingQueue
     ELSE /\ isProcessingQueue' = FALSE
          /\ draining' = NoTask
          /\ UNCHANGED <<requestQueue, pc, modelStatus>>
  /\ UNCHANGED <<envVars, clientVars, memVars, modelObj, unloadTimer, isBackgrounded, target, taskVars>>

\* ----------------------------------------------------------- MemoryManager
RECURSIVE SumSizes(_)
SumSizes(items) ==
  IF items = <<>> THEN 0 ELSE Head(items).size + SumSizes(Tail(items))

getCacheSize(items) == SumSizes(items)

getTotalMemory == IF platformOS = "ios" THEN TotalMemoryIOS ELSE TotalMemoryAndroid

getUsedMemory(items) == BaseMemory + getCacheSize(items) + ModelMemory

\* usedMemory / totalMemory > MEMORY_THRESHOLD, in tenths
OverThreshold(items) == getUsedMemory(items) * 10 > getTotalMemory * MEMORY_THRESHOLD_TENTHS

Priority(items, p) == {i \in 1..Len(items) : items[i].priority = p}

HasKey(items, k) == \E i \in 1..Len(items) : items[i].key = k

\* a store that appends without looking for the key
MapAppend(items, item) == Append(items, item)

\* Map.set: an existing key keeps its place, a new key goes last
MapSet(items, item) ==
  IF HasKey(items, item.key)
  THEN [i \in 1..Len(items) |-> IF items[i].key = item.key THEN item ELSE items[i]]
  ELSE Append(items, item)

removeExpiredCacheItems(items) ==
  LET Fresh(it) == ~(now - it.timestamp > CACHE_EXPIRY)
  IN SelectSeq(items, Fresh)

\* Array.prototype.sort with (a, b) => a.timestamp - b.timestamp is stable
RECURSIVE InsertByTimestamp(_, _)
InsertByTimestamp(sorted, item) ==
  IF sorted = <<>> THEN <<item>>
  ELSE IF Head(sorted).timestamp <= item.timestamp
       THEN <<Head(sorted)>> \o InsertByTimestamp(Tail(sorted), item)
       ELSE <<item>> \o sorted

RECURSIVE SortByTimestamp(_)
SortByTimestamp(items) ==
  IF items = <<>> THEN <<>>
  ELSE InsertByTimestamp(SortByTimestamp(SubSeq(items, 1, Len(items) - 1)), items[Len(items)])

\* a sweep without the priority filter of line 183
removeOldestItems(items) ==
  LET lowPriorityItems == SortByTimestamp(items)
      itemsToRemove == (Len(lowPriorityItems) + 1) \div 2
      gone == {lowPriorityItems[i].key : i \in 1..itemsToRemove}
      Kept(it) == it.key \notin gone
  IN SelectSeq(items, Kept)

\* a sweep whose filter of line 183 lets the medium priority through
removeLowAndMediumItems(items) ==
  LET IsLow(it) == it.priority >= 2
      lowPriorityItems == SortByTimestamp(SelectSeq(items, IsLow))
      itemsToRemove == (Len(lowPriorityItems) + 1) \div 2
      gone == {lowPriorityItems[i].key : i \in 1..itemsToRemove}
      Kept(it) == it.key \notin gone
  IN SelectSeq(items, Kept)

\* a sweep that takes the low-priority entries in the order of the Map,
\* newest first, without the sort of line 184
removeNewestLowItems(items) ==
  LET IsLow(it) == it.priority = 3
      lowPriorityItems == SelectSeq(items, IsLow)
      n == Len(lowPriorityItems)
      itemsToRemove == (n + 1) \div 2
      gone == {lowPriorityItems[n + 1 - i].key : i \in 1..itemsToRemove}
      Kept(it) == it.key \notin gone
  IN SelectSeq(items, Kept)

removeLowPriorityItems(items) ==
  LET IsLow(it) == it.priority = 3
      lowPriorityItems == SortByTimestamp(SelectSeq(items, IsLow))
      itemsToRemove == (Len(lowPriorityItems) + 1) \div 2
      gone == {lowPriorityItems[i].key : i \in 1..itemsToRemove}
      Kept(it) == it.key \notin gone
  IN SelectSeq(items, Kept)

performMemoryCleanup(items) ==
  LET live == removeExpiredCacheItems(items)
  IN IF OverThreshold(live) THEN removeLowPriorityItems(live) ELSE live

checkMemoryThreshold(items) ==
  IF OverThreshold(items) THEN performMemoryCleanup(items) ELSE items

\* a periodic callback without the expiry pass of line 226
performPeriodicCleanupThresholdOnly(items) ==
  checkMemoryThreshold(items)

performPeriodicCleanup(items) ==
  checkMemoryThreshold(removeExpiredCacheItems(items))

\* a background cleanup that drops the low priority only
performAggressiveCleanupLowOnly(items) ==
  LET Stays(it) == ~(it.priority > 2)
  IN SelectSeq(items, Stays)

performAggressiveCleanup(items) ==
  LET IsHigh(it) == ~(it.priority > 1)
  IN SelectSeq(items, IsHigh)

\* MemoryManager.getCacheItem: Map.get, a read that changes nothing
getCacheItem(items, k) ==
  IF HasKey(items, k)
  THEN items[CHOOSE i \in 1..Len(items) : items[i].key = k]
  ELSE NoItem

\* MemoryManager.getCacheStats
getCacheStats(items) ==
  [totalItems |-> Len(items),
   totalSize |-> SumSizes(items),
   priorityBreakdown |-> [p \in Priorities |-> Cardinality(Priority(items, p))]]

\* MemoryManager.addCacheItem
AddCacheItem(k, size, priority) ==
  /\ NoSyncBlock
  /\ cacheItems' = checkMemoryThreshold(
       MapSet(cacheItems, [key |-> k, size |-> size, timestamp |-> now, priority |-> priority]))
  /\ UNCHANGED <<envVars, clientVars, now, ticks, cleanupInterval, modelStatus, modelObj, unloadTimer, isBackgrounded, queueVars, pc, target, taskVars>>

\* MemoryManager.removeCacheItem
RemoveCacheItem(k) ==
  /\ NoSyncBlock
  /\ LET Other(it) == it.key # k IN cacheItems' = SelectSeq(cacheItems, Other)
  /\ UNCHANGED <<envVars, clientVars, now, ticks, cleanupInterval, modelStatus, modelObj, unloadTimer, isBackgrounded, queueVars, pc, target, taskVars>>

\* performPeriodicCleanup (lines 225-228), the callback of the interval timer
\* armed at line 60
PeriodicCleanup ==
  /\ NoSyncBlock
  /\ cleanupInterval # NoInterval
  /\ now >= cleanupInterval
  /\ cacheItems' = performPeriodicCleanup(cacheItems)
  /\ cleanupInterval' = now + CLEANUP_INTERVAL
  /\ UNCHANGED <<envVars, clientVars, now, ticks, modelStatus, modelObj, unloadTimer, isBackgrounded, queueVars, pc, target, taskVars>>

\* MemoryManager.forceCleanup up to its await (lines 341-348)
ForceCleanup(d) ==
  /\ NoSyncBlock
  /\ d \in Directs
  /\ pc[d] = "idle"
  /\ \A e \in Directs : e < d => pc[e] # "idle"
  /\ cacheItems' = <<>>
  /\ pc' = [pc EXCEPT ![d] = "forcing"]
  /\ UNCHANGED <<envVars, clientVars, now, ticks, cleanupInterval, modelStatus, modelObj, unloadTimer, isBackgrounded, queueVars, target, taskVars>>

\* forceCleanup after clearAsyncStorageCache has settled (lines 350-355)
ForceCleanupDone(d) ==
  /\ NoSyncBlock
  /\ d \in Directs
  /\ pc[d] = "forcing"
  /\ pc' = [pc EXCEPT ![d] = "ret_force"]
  /\ UNCHANGED <<envVars, clientVars, memVars, modelStatus, modelObj, unloadTimer, isBackgrounded, queueVars, target, taskVars>>

\* MemoryManager.cleanup (lines 359-370)
MemCleanup ==
  /\ NoSyncBlock
  /\ cleanupInterval' = NoInterval
  /\ cacheItems' = <<>>
  /\ UNCHANGED <<envVars, clientVars, now, ticks, modelStatus, modelObj, unloadTimer, isBackgrounded, queueVars, pc, target, taskVars>>

\* a call of the public unloadGemmaModel / unloadTTSModel (lines 293-317)
UnloadCall(d, r) ==
  /\ NoSyncBlock
  /\ d \in Directs
  /\ pc[d] = "idle"
  /\ \A e \in Directs : e < d => pc[e] # "idle"
  /\ target' = [target EXCEPT ![d] = r]
  /\ pc' = [pc EXCEPT ![d] = "ret_unload"]
  /\ modelStatus' = unloadModel(modelStatus, r)
  /\ modelObj' = [modelObj EXCEPT ![r] = FALSE]
  /\ UNCHANGED <<envVars, clientVars, memVars, unloadTimer, isBackgrounded, queueVars, taskVars>>

\* the idle-unload timer callback (lines 323-329)
TimerFire ==
  /\ NoSyncBlock
  /\ unloadTimer # NoTimer
  /\ modelStatus' = unloadModel(modelStatus, unloadTimer.key)
  /\ modelObj' = [modelObj EXCEPT ![unloadTimer.key] = FALSE]
  /\ unloadTimer' = NoTimer
  /\ UNCHANGED <<envVars, clientVars, memVars, isBackgrounded, queueVars, pc, target, taskVars>>

\* the two 'change' listeners: ModelManager.handleAppStateChange and
\* MemoryManager.handleAppStateChange
AppStateChange(s) ==
  /\ NoSyncBlock
  /\ IF s \in {"background", "inactive"}
     THEN /\ isBackgrounded' = TRUE
          /\ modelStatus' = unloadModel(unloadModel(modelStatus, "gemma"), "tts")
          /\ modelObj' = [r \in Resources |-> FALSE]
          /\ cacheItems' = performAggressiveCleanup(cacheItems)
          /\ UNCHANGED unloadTimer
     ELSE /\ isBackgrounded' = FALSE
          /\ unloadTimer' = NoTimer
          /\ UNCHANGED <<modelStatus, modelObj, cacheItems>>
  /\ UNCHANGED <<envVars, clientVars, now, ticks, cleanupInterval, queueVars, pc, target, taskVars>>

\* time passes between two handler runs
Tick(step) ==
  /\ NoSyncBlock
  /\ ticks < MaxTicks
  /\ now' = now + step
  /\ ticks' = ticks + 1
  /\ UNCHANGED <<envVars, clientVars, cacheItems, cleanupInterval, modelStatus, modelObj, unloadTimer, isBackgrounded, queueVars, pc, target, taskVars>>

\* under a clock, the timer of loadQuantizedModel (line 219) runs its
\* callback no earlier than LoadDelay after the load began
TimedBackendDone(c) ==
  /\ now >= modelStatus[target[c]].lastUsed + LoadDelay
  /\ BackendDone(c)

\* under a clock, the idle-unload timer runs no earlier than its delay
TimedTimerFire ==
  /\ now >= unloadTimer.due
  /\ TimerFire

Next ==
  \/ \E t \in Tasks, r \in Resources : Submit(t, r)
  \/ \E d \in Directs, r \in Resources : DirectLoad(d, r)
  \/ \E c \in Callers : LoadCheck(c)
  \/ \E c \in Callers : BackendDone(c)
  \/ \E c \in Callers : PollDone(c)
  \/ \E d \in Directs : DirectReturn(d)
  \/ \E t \in Tasks : OpDone(t)
  \/ DrainNext
  \/ TimerFire
  \/ \E s \in {"active", "background", "inactive"} : AppStateChange(s)

\* ------------------------------------------- OptimizedTranslationService
TranslationExpiry == CACHE_EXPIRY_HOURS * 3600000

HasTranslation(cache, k) == \E i \in 1..Len(cache) : cache[i].key = k

\* a lookup with the age test inverted
getFromCacheInverted(cache, k) ==
  LET entry == {i \in 1..Len(cache) : cache[i].key = k}
  IN IF \E i \in entry : now - cache[i].timestamp >= TranslationExpiry
     THEN cache[CHOOSE i \in entry : TRUE].text
     ELSE "null"

\* OptimizedTranslationService.getFromCache: the text, or null
getFromCache(cache, k) ==
  LET entry == {i \in 1..Len(cache) : cache[i].key = k}
  IN IF \E i \in entry : now - cache[i].timestamp < TranslationExpiry
     THEN cache[CHOOSE i \in entry : TRUE].text
     ELSE "null"

\* the loop of evictOldestCacheEntry: the first entry, in Map order, with
\* the least timestamp below Date.now(); 0 stands for oldestKey = ''
OldestIndex(cache) ==
  LET older == {i \in 1..Len(cache) : cache[i].timestamp < now}
  IN IF older = {} THEN 0
     ELSE CHOOSE i \in older :
            \A j \in older : cache[i].timestamp < cache[j].timestamp
                              \/ (cache[i].timestamp = cache[j].timestamp /\ i <= j)

evictOldestCacheEntry(cache) ==
  LET oldest == OldestIndex(cache)
  IN IF oldest = 0 THEN cache
     ELSE [i \in 1..(Len(cache) - 1) |-> IF i < oldest THEN cache[i] ELSE cache[i + 1]]

\* OptimizedTranslationService.addToCache
addToCache(cache, k, text) ==
  LET room == IF Len(cache) >= MaxCacheSize
              THEN evictOldestCacheEntry(cache)
              ELSE cache
      entry == [key |-> k, text |-> text, timestamp |-> now]
  IN IF HasTranslation(room, k)
     THEN [i \in 1..Len(room) |-> IF room[i].key = k THEN entry ELSE room[i]]
     ELSE Append(room, entry)

\* a translation that came back is remembered (translateText line 122)
AddToCache(k, text) ==
  /\ translationCache' = addToCache(translationCache, k, text)
  /\ UNCHANGED <<managerVars, speechVars, translateCalls, recVars, appPc, prefVars>>

\* the lookup of translateText (line 102): an expired entry is deleted
GetFromCache(k) ==
  /\ HasTranslation(translationCache, k)
  /\ LET Stays(e) == e.key # k \/ getFromCache(translationCache, k) # "null"
     IN translationCache' = SelectSeq(translationCache, Stays)
  /\ UNCHANGED <<managerVars, speechVars, translateCalls, recVars, appPc, prefVars>>

\* OptimizedTranslationService.cleanupExpiredCache, the callback of the
\* hourly interval timer armed in the constructor
CleanupExpiredCache ==
  /\ LET Fresh(e) == ~(now - e.timestamp > TranslationExpiry)
     IN translationCache' = SelectSeq(translationCache, Fresh)
  /\ UNCHANGED <<managerVars, speechVars, translateCalls, recVars, appPc, prefVars>>

\* OptimizedTranslationService.clearCache
ClearCache ==
  /\ translationCache' = <<>>
  /\ UNCHANGED <<managerVars, speechVars, translateCalls, recVars, appPc, prefVars>>

\* OptimizedTranslationService.translateText up to its first await: a cache
\* hit returns the remembered text; a miss (an expired entry is deleted by
\* the lookup) validates the request and hands the translation to
\* executeWithGemma
TranslateText(c, k, valid) ==
  /\ NoSyncBlock
  /\ translateCalls[c] = NoCall
  /\ \A b \in Calls : b < c => translateCalls[b] # NoCall
  /\ LET cachedResult == getFromCache(translationCache, k)
         Stays(e) == e.key # k
     IN IF cachedResult # "null"
        THEN /\ translateCalls' = [translateCalls EXCEPT ![c] =
                  [key |-> k, at |-> "hit", task |-> NoTask, text |-> cachedResult, tokensUsed |-> 0]]
             /\ UNCHANGED <<managerVars, translationCache>>
        ELSE /\ translationCache' = SelectSeq(translationCache, Stays)
             /\ IF valid
                THEN \E t \in Tasks :
                       /\ executeWith(t, "gemma")
                       /\ translateCalls' = [translateCalls EXCEPT ![c] =
                            [key |-> k, at |-> "waiting", task |-> t, text |-> "null", tokensUsed |-> 0]]
                ELSE /\ translateCalls' = [translateCalls EXCEPT ![c] =
                          [key |-> k, at |-> "threw", task |-> NoTask, text |-> "null", tokensUsed |-> 0]]
                     /\ UNCHANGED managerVars
  /\ UNCHANGED <<recVars, speechVars, appPc, prefVars>>

\* translateText after `await modelManager.executeWithGemma(...)`: the
\* result is remembered and returned, a rejection is thrown on
TranslateReturn(c, text) ==
  /\ NoSyncBlock
  /\ translateCalls[c].at = "waiting"
  /\ settled[translateCalls[c].task] # "pending"
  /\ IF settled[translateCalls[c].task] = "resolved"
     THEN /\ translationCache' = addToCache(translationCache, translateCalls[c].key, text)
          /\ translateCalls' = [translateCalls EXCEPT ![c].at = "returned", ![c].text = text, ![c].tokensUsed = 1]
     ELSE /\ translateCalls' = [translateCalls EXCEPT ![c].at = "threw"]
          /\ UNCHANGED translationCache
  /\ UNCHANGED <<managerVars, speechVars, recVars, appPc, prefVars>>

\* OptimizedTranslationService.loadUserPreference: what the app reads back
\* from the store
loadUserPreference(stored) == IF stored = NoPreference THEN DefaultPreference ELSE stored

\* ------------------------------------- App and OptimizedSpeechService
\* App.startRecording with OptimizedSpeechService.startRecording, to the
\* first run of monitorAudioLevel (one recording is taken and processed at
\* a time)
StartRecording(level) ==
  /\ ~appRecording
  /\ ~svcRecording
  /\ svcStop = "none"
  /\ appPc = "idle"
  /\ appRecording' = TRUE
  /\ svcRecording' = TRUE
  /\ silenceStartTime' = IF level = "silent" THEN now ELSE NoSilence
  /\ recording' = TRUE
  /\ liveRecordings' = liveRecordings + 1
  /\ silenceTimer' = TRUE
  /\ levelCalls' = 1 - levelCalls
  /\ quietSince' = IF level = "silent" THEN now ELSE NoSilence
  /\ audioChunks' = <<>>
  /\ arrived' = <<>>
  /\ UNCHANGED <<managerVars, memoVars, svcStop, appPc, prefVars, recCalls>>

\* OptimizedSpeechService.monitorAudioLevel, the callback of the 100 ms
\* timer; on 5 s of silence it enters autoStopRecording, which calls
\* stopRecording and awaits it
MonitorAudioLevel(level) ==
  /\ svcRecording
  /\ IF level = "silent"
     THEN IF silenceStartTime = NoSilence
          THEN /\ silenceStartTime' = now
               /\ UNCHANGED <<svcRecording, svcStop>>
          ELSE IF now - silenceStartTime >= SILENCE_TIMEOUT
               THEN /\ svcRecording' = FALSE
                    /\ svcStop' = "auto"
                    /\ UNCHANGED silenceStartTime
               ELSE UNCHANGED <<svcRecording, svcStop, silenceStartTime>>
     ELSE /\ silenceStartTime' = NoSilence
          /\ UNCHANGED <<svcRecording, svcStop>>
  /\ silenceTimer' = svcRecording'
  /\ levelCalls' = 1 - levelCalls
  /\ quietSince' = IF level = "silent"
                   THEN (IF quietSince = NoSilence THEN now ELSE quietSince)
                   ELSE NoSilence
  /\ UNCHANGED <<managerVars, memoVars, appRecording, appPc, prefVars, recording, liveRecordings, recCalls, chunkVars>>

\* autoStopRecording after its stopRecording has settled (lines 656-661):
\* it runs the onAutoStop callback of App (lines 113-124), whose own
\* stopRecording call throws 'Not recording' (line 576) into its catch
AutoStopDone ==
  /\ svcStop = "auto"
  /\ svcStop' = "none"
  /\ appRecording' = FALSE
  /\ appPc' = IF svcRecording THEN "stt" ELSE appPc
  /\ recording' = FALSE
  /\ liveRecordings' = liveRecordings - 1
  /\ UNCHANGED <<managerVars, memoVars, svcRecording, silenceStartTime, prefVars, recCalls, monitorVars, chunkVars>>

\* App.stopRecording to the await inside OptimizedSpeechService.stopRecording
ManualStop ==
  /\ appRecording
  /\ appRecording' = FALSE
  /\ IF svcRecording
     THEN /\ svcRecording' = FALSE
          /\ svcStop' = "manual"
          /\ closurePref' = userPreference
          /\ silenceTimer' = FALSE
     ELSE UNCHANGED <<svcRecording, svcStop, closurePref, silenceTimer>>
  /\ UNCHANGED <<recording, liveRecordings, recCalls, levelCalls, quietSince, chunkVars>>
  /\ UNCHANGED <<managerVars, memoVars, silenceStartTime, appPc, userPreference, storedPreference, detected, translatedTo>>

\* App.stopRecording after the audio URI is returned: processAudioRecording
\* to its await of speechToText
ManualStopDone ==
  /\ svcStop = "manual"
  /\ svcStop' = "none"
  /\ appPc' = "stt"
  /\ recording' = FALSE
  /\ liveRecordings' = liveRecordings - 1
  /\ UNCHANGED <<managerVars, memoVars, appRecording, svcRecording, silenceStartTime, prefVars, recCalls, monitorVars, chunkVars>>

\* processAudioRecording from the result of speechToText to its await of
\* translateText (lines 159-171)
SttDone(lang) ==
  /\ appPc = "stt"
  /\ detected' = lang
  /\ translatedTo' = IF lang = "en" THEN closurePref ELSE "en"
  /\ appPc' = "translating"
  /\ UNCHANGED <<managerVars, speechVars, memoVars, recVars, userPreference, storedPreference, closurePref>>

\* speechToText rejects: the catch of processAudioRecording (lines 178-181)
SttFailed ==
  /\ appPc = "stt"
  /\ appPc' = "idle"
  /\ UNCHANGED <<managerVars, speechVars, memoVars, recVars, prefVars>>

\* processAudioRecording after translateText has settled (lines 172-176),
\* with App.saveUserPreference
TranslateDone ==
  /\ appPc = "translating"
  /\ appPc' = "idle"
  /\ IF detected # "en" /\ detected # closurePref
     THEN /\ storedPreference' = detected
          /\ userPreference' = detected
     ELSE UNCHANGED <<storedPreference, userPreference>>
  /\ UNCHANGED <<managerVars, speechVars, memoVars, recVars, closurePref, detected, translatedTo>>

\* App.handleLanguageSelect, with App.saveUserPreference
HandleLanguageSelect(lang) ==
  /\ userPreference' = lang
  /\ storedPreference' = lang
  /\ UNCHANGED <<managerVars, speechVars, memoVars, recVars, appPc, closurePref, detected, translatedTo>>

\* a buffer that drops the newest chunk when the limit is exceeded (pop in
\* place of shift)
addAudioChunkDroppingNewest(chunks, chunk) ==
  LET pushed == Append(chunks, chunk)
  IN IF Len(pushed) > MAX_AUDIO_CHUNKS THEN SubSeq(pushed, 1, Len(pushed) - 1) ELSE pushed

\* ------------------------------ OptimizedSpeechService, call by call
\* Array.push, then Array.shift when the limit is exceeded (lines 798-803)
addAudioChunk(chunks, chunk) ==
  LET pushed == Append(chunks, chunk)
  IN IF Len(pushed) > MAX_AUDIO_CHUNKS THEN Tail(pushed) ELSE pushed

\* one turn of the loop of speakTextStream: the chunk that was generated is
\* added to the buffer
AddAudioChunk(chunk) ==
  /\ Len(arrived) < MaxChunks
  /\ arrived' = Append(arrived, chunk)
  /\ audioChunks' = addAudioChunk(audioChunks, chunk)
  /\ UNCHANGED <<managerVars, memoVars, recVars, appPc, prefVars, recording, liveRecordings, recCalls, monitorVars>>

\* stopSpeaking after Speech.stop(): clearAudioChunks
StopSpeaking ==
  /\ audioChunks' = <<>>
  /\ arrived' = <<>>
  /\ UNCHANGED <<managerVars, memoVars, recVars, appPc, prefVars, recording, liveRecordings, recCalls, monitorVars>>

\* a startRecording that resets the silence detection before its guard
SvcStartResettingFirst(c) ==
  /\ recCalls[c] = "none"
  /\ \A b \in RecCalls : b < c => recCalls[b] # "none"
  /\ recCalls' = [recCalls EXCEPT ![c] = IF svcRecording THEN "Already recording" ELSE "initialize"]
  /\ silenceStartTime' = NoSilence
  /\ silenceTimer' = FALSE
  /\ UNCHANGED <<managerVars, memoVars, appRecording, svcRecording, svcStop, appPc, prefVars, recording, liveRecordings, levelCalls, quietSince, chunkVars>>

\* startRecording to its first await: the guard of line 530, then the call
\* of initialize
SvcStart(c) ==
  /\ recCalls[c] = "none"
  /\ \A b \in RecCalls : b < c => recCalls[b] # "none"
  /\ recCalls' = [recCalls EXCEPT ![c] = IF svcRecording THEN "Already recording" ELSE "initialize"]
  /\ UNCHANGED <<managerVars, memoVars, recVars, appPc, prefVars, recording, liveRecordings, monitorVars, chunkVars>>

\* startRecording after `await this.initialize()` (lines 535-560): without
\* the permission it throws; with it, clearAudioChunks, resetSilenceDetection
\* and the call of Audio.Recording.createAsync
SvcInitialized(c, granted) ==
  /\ recCalls[c] = "initialize"
  /\ IF granted
     THEN /\ recCalls' = [recCalls EXCEPT ![c] = "createAsync"]
          /\ audioChunks' = <<>>
          /\ arrived' = <<>>
          /\ silenceStartTime' = NoSilence
          /\ silenceTimer' = FALSE
     ELSE /\ recCalls' = [recCalls EXCEPT ![c] = "failed"]
          /\ UNCHANGED <<audioChunks, arrived, silenceStartTime, silenceTimer>>
  /\ UNCHANGED <<managerVars, memoVars, appRecording, svcRecording, svcStop, appPc, prefVars, recording, liveRecordings, levelCalls, quietSince>>

\* startRecording after `await Audio.Recording.createAsync(...)` (lines
\* 560-565): the recording is held, and startSilenceDetection runs
\* monitorAudioLevel once; a creation that the library rejects is thrown on
SvcCreated(c, created, level) ==
  /\ recCalls[c] = "createAsync"
  /\ IF created
     THEN /\ recCalls' = [recCalls EXCEPT ![c] = "started"]
          /\ recording' = TRUE
          /\ liveRecordings' = liveRecordings + 1
          /\ svcRecording' = TRUE
          /\ silenceStartTime' = IF level = "silent" THEN now ELSE NoSilence
          /\ quietSince' = IF level = "silent" THEN now ELSE NoSilence
          /\ levelCalls' = 1 - levelCalls
          /\ silenceTimer' = TRUE
     ELSE /\ recCalls' = [recCalls EXCEPT ![c] = "failed"]
          /\ UNCHANGED <<recording, liveRecordings, svcRecording, silenceStartTime, monitorVars>>
  /\ UNCHANGED <<managerVars, memoVars, appRecording, svcStop, appPc, prefVars, chunkVars>>

\* stopRecording to its await of stopAndUnloadAsync (lines 575-582)
SvcStop(c) ==
  /\ recCalls[c] = "none"
  /\ \A b \in RecCalls : b < c => recCalls[b] # "none"
  /\ IF ~svcRecording \/ ~recording
     THEN /\ recCalls' = [recCalls EXCEPT ![c] = "Not recording"]
          /\ UNCHANGED <<svcRecording, silenceTimer>>
     ELSE /\ recCalls' = [recCalls EXCEPT ![c] = "stopping"]
          /\ svcRecording' = FALSE
          /\ silenceTimer' = FALSE
  /\ UNCHANGED <<managerVars, memoVars, appRecording, svcStop, silenceStartTime, appPc, prefVars, recording, liveRecordings, levelCalls, quietSince, chunkVars>>

\* stopRecording after `await this.recording.stopAndUnloadAsync()` (lines
\* 583-596), for autoStopRecording with its onAutoStop callback (657-661):
\* the URI is read from this.recording, which another stopRecording may have
\* set to null meanwhile
SvcStopDone(c, stopped) ==
  /\ recCalls[c] \in {"stopping", "autostopping"}
  /\ IF stopped
     THEN /\ liveRecordings' = liveRecordings - 1
          /\ recording' = FALSE
          /\ recCalls' = [recCalls EXCEPT ![c] =
                IF ~recording THEN "failed"
                ELSE IF @ = "autostopping" THEN "autostopped" ELSE "stopped"]
     ELSE /\ recCalls' = [recCalls EXCEPT ![c] = "failed"]
          /\ UNCHANGED <<recording, liveRecordings>>
  /\ UNCHANGED <<managerVars, memoVars, recVars, appPc, prefVars, monitorVars, chunkVars>>

\* a monitor that keeps the silence start over a sample at or above the
\* threshold
SvcMonitorKeepingStart(c, level) ==
  /\ silenceTimer
  /\ recCalls[c] = "none"
  /\ \A b \in RecCalls : b < c => recCalls[b] # "none"
  /\ svcRecording /\ recording
  /\ levelCalls' = 1 - levelCalls
  /\ quietSince' = IF level = "silent"
                   THEN (IF quietSince = NoSilence THEN now ELSE quietSince)
                   ELSE NoSilence
  /\ IF silenceStartTime = NoSilence
     THEN /\ silenceStartTime' = IF level = "silent" THEN now ELSE NoSilence
          /\ UNCHANGED <<svcRecording, silenceTimer, recCalls>>
     ELSE IF now - silenceStartTime >= SILENCE_TIMEOUT /\ level = "silent"
          THEN /\ svcRecording' = FALSE
               /\ silenceTimer' = FALSE
               /\ recCalls' = [recCalls EXCEPT ![c] = "autostopping"]
               /\ UNCHANGED silenceStartTime
          ELSE UNCHANGED <<svcRecording, silenceTimer, silenceStartTime, recCalls>>
  /\ UNCHANGED <<managerVars, memoVars, appRecording, svcStop, appPc, prefVars, recording, liveRecordings, chunkVars>>

\* monitorAudioLevel as the callback of its 100 ms timer (lines 619-652);
\* c is the stopRecording call that autoStopRecording makes
SvcMonitor(c, level) ==
  /\ silenceTimer
  /\ recCalls[c] = "none"
  /\ \A b \in RecCalls : b < c => recCalls[b] # "none"
  /\ IF ~svcRecording \/ ~recording
     THEN /\ silenceTimer' = FALSE
          /\ UNCHANGED <<svcRecording, silenceStartTime, recCalls, levelCalls, quietSince>>
     ELSE /\ levelCalls' = 1 - levelCalls
          /\ quietSince' = IF level = "silent"
                           THEN (IF quietSince = NoSilence THEN now ELSE quietSince)
                           ELSE NoSilence
          /\ IF level = "silent"
             THEN IF silenceStartTime = NoSilence
                  THEN /\ silenceStartTime' = now
                       /\ UNCHANGED <<svcRecording, silenceTimer, recCalls>>
                  ELSE IF now - silenceStartTime >= SILENCE_TIMEOUT
                       THEN /\ svcRecording' = FALSE
                            /\ silenceTimer' = FALSE
                            /\ recCalls' = [recCalls EXCEPT ![c] = "autostopping"]
                            /\ UNCHANGED silenceStartTime
                       ELSE UNCHANGED <<svcRecording, silenceTimer, silenceStartTime, recCalls>>
             ELSE /\ silenceStartTime' = NoSilence
                  /\ UNCHANGED <<svcRecording, silenceTimer, recCalls>>
  /\ UNCHANGED <<managerVars, memoVars, appRecording, svcStop, appPc, prefVars, recording, liveRecordings, chunkVars>>

\* both managers together: loads and unloads from outside the queue, the
\* app-state listeners, cache inserts and the forced cleanup
NextMem ==
  \/ \E d \in Directs, r \in Resources : DirectLoad(d, r)
  \/ \E d \in Directs : LoadCheck(d)
  \/ \E d \in Directs : BackendDone(d)
  \/ \E d \in Directs : DirectReturn(d)
  \/ \E d \in Directs, r \in Resources : UnloadCall(d, r)
  \/ \E d \in Directs : ForceCleanup(d)
  \/ \E d \in Directs : ForceCleanupDone(d)
  \/ TimerFire
  \/ \E s \in {"active", "background", "inactive"} : AppStateChange(s)
  \/ \E k \in CacheKeys, size \in CacheSizes, priority \in Priorities : AddCacheItem(k, size, priority)

\* the priority cache under a clock: inserts, removals, the periodic and
\* the background cleanup, the explicit clears
NextCache ==
  \/ \E k \in CacheKeys, size \in CacheSizes, priority \in Priorities : AddCacheItem(k, size, priority)
  \/ \E k \in CacheKeys : RemoveCacheItem(k)
  \/ PeriodicCleanup
  \/ \E s \in {"active", "background", "inactive"} : AppStateChange(s)
  \/ MemCleanup
  \/ Tick(CACHE_EXPIRY)

\* the lifecycle of the two models in a foregrounded app, under a clock
NextIdle ==
  \/ \E d \in Directs, r \in Resources : DirectLoad(d, r)
  \/ \E d \in Directs : LoadCheck(d)
  \/ \E d \in Directs : TimedBackendDone(d)
  \/ \E d \in Directs : DirectReturn(d)
  \/ TimedTimerFire
  \/ \E step \in TickSteps : Tick(step)

Spec == Init /\ [][Next]_vars
SpecIdle == Init /\ [][NextIdle]_vars
SpecMem == InitMem /\ [][NextMem]_vars
SpecCache == InitMem /\ [][NextCache]_vars
SpecFault == InitFault /\ [][Next]_vars

\* the request queue with loads and operation bodies that terminate: every
\* awaited promise settles and every continuation that is ready is run; a
\* caller outside the queue loads once
NextQueue ==
  \/ \E t \in Tasks, r \in Resources : Submit(t, r)
  \/ \E d \in Directs, r \in Resources : DirectLoad(d, r)
  \/ \E c \in Callers : LoadCheck(c)
  \/ \E c \in Callers : BackendDone(c)
  \/ \E c \in Callers : PollDone(c)
  \/ \E t \in Tasks : OpDone(t)
  \/ DrainNext

SpecQueue ==
  /\ InitFault
  /\ [][NextQueue]_vars
  /\ \A c \in Callers : WF_vars(LoadCheck(c))
  /\ \A c \in Callers : WF_vars(BackendDone(c))
  /\ \A c \in Callers : WF_vars(PollDone(c))
  /\ \A t \in Tasks : WF_vars(OpDone(t))
  /\ WF_vars(DrainNext)

\* the accounting of the priority cache on an iOS device: inserts of two
\* payload sizes, removals, the background cleanup, the clear, under a clock
NextStats ==
  \/ \E k \in CacheKeys, size \in PayloadSizes, priority \in Priorities : AddCacheItem(k, size, priority)
  \/ \E k \in CacheKeys : RemoveCacheItem(k)
  \/ \E s \in {"active", "background", "inactive"} : AppStateChange(s)
  \/ MemCleanup
  \/ Tick(CACHE_EXPIRY)

SpecStats == Init /\ [][NextStats]_vars

\* the priority cache while its interval timer stays armed (no cleanup()):
\* setInterval runs the callback again and again, so a callback that is due
\* is not postponed for ever
NextSweep ==
  \/ \E k \in CacheKeys, size \in CacheSizes, priority \in Priorities : AddCacheItem(k, size, priority)
  \/ \E k \in CacheKeys : RemoveCacheItem(k)
  \/ PeriodicCleanup
  \/ Tick(CACHE_EXPIRY)

SpecSweep == InitMem /\ [][NextSweep]_vars /\ WF_vars(PeriodicCleanup)

\* the translation memo under a clock: inserts, lookups, the hourly sweep
\* and the clear
NextTranslate ==
  \/ \E k \in TranslationKeys, text \in Texts : AddToCache(k, text)
  \/ \E k \in TranslationKeys : GetFromCache(k)
  \/ CleanupExpiredCache
  \/ ClearCache
  \/ Tick(TranslationExpiry)

SpecTranslate == Init /\ [][NextTranslate]_vars

\* translation requests through the memo and the queue, under a clock: the
\* calls, the load and the operation of the task a miss submits, and the
\* hourly sweep
NextRequest ==
  \/ \E c \in Calls, k \in RequestKeys, valid \in BOOLEAN : TranslateText(c, k, valid)
  \/ \E c \in Calls, text \in Texts : TranslateReturn(c, text)
  \/ \E c \in Callers : LoadCheck(c)
  \/ \E c \in Callers : BackendDone(c)
  \/ \E t \in Tasks : OpDone(t)
  \/ DrainNext
  \/ CleanupExpiredCache
  \/ Tick(TranslationExpiry)

SpecRequest == Init /\ [][NextRequest]_vars

\* the app: recordings stopped by hand or by silence, their processing, and
\* the language picker, under a clock
NextApp ==
  \/ \E level \in {"silent", "loud"} : StartRecording(level)
  \/ \E level \in {"silent", "loud"} : MonitorAudioLevel(level)
  \/ AutoStopDone
  \/ ManualStop
  \/ ManualStopDone
  \/ \E lang \in Languages : SttDone(lang)
  \/ SttFailed
  \/ TranslateDone
  \/ \E lang \in Languages : HandleLanguageSelect(lang)
  \/ Tick(SILENCE_TIMEOUT)

SpecApp == Init /\ [][NextApp]_vars

\* the speech service by itself: startRecording and stopRecording calls in
\* any interleaving of their awaits, the silence monitor, the chunks of a
\* streamed utterance, under a clock
NextRecorder ==
  \/ \E c \in RecCalls : SvcStart(c)
  \/ \E c \in RecCalls, granted \in BOOLEAN : SvcInitialized(c, granted)
  \/ \E c \in RecCalls, created \in BOOLEAN, level \in AudioLevels : SvcCreated(c, created, level)
  \/ \E c \in RecCalls : SvcStop(c)
  \/ \E c \in RecCalls, stopped \in BOOLEAN : SvcStopDone(c, stopped)
  \/ \E c \in RecCalls, level \in AudioLevels : SvcMonitor(c, level)
  \/ Tick(SILENCE_TIMEOUT)

SpecRecorder == Init /\ [][NextRecorder]_vars

\* the chunk buffer: the chunks of streamed utterances, and stopSpeaking,
\* which empties it
NextStream ==
  \/ \E chunk \in ChunkData : AddAudioChunk(chunk)
  \/ StopSpeaking

SpecStream == Init /\ [][NextStream]_vars

\* ================================================================ claims
InFlightPcs == {"checking", "loading", "waiting", "op"}
InFlight == {t \in Tasks : pc[t] \in InFlightPcs}
Rejections == {"rejected"}
Started(t) == pc[t] \notin {"idle", "queued"}

\* C1: single-flight - at every instant at most one task stands between
\* being shifted off requestQueue and the settlement of its promise,
\* whichever resource each task is for.
C1_SingleFlight ==
  /\ Cardinality(InFlight) <= 1
  /\ \A t \in InFlight : draining = t /\ isProcessingQueue

\* a gemma task and a tts task, one in flight and the other still queued
C1_Witness ==
  \E t, u \in Tasks :
    /\ pc[t] \in InFlightPcs
    /\ pc[u] = "queued"
    /\ target[t] # target[u]

\* C2: strict FIFO - promises settle in submission order (task ids are
\* given in submission order), and no task's closure has started while an
\* earlier submitted task is still unsettled.
C2_StrictFIFO ==
  /\ \A i, j \in 1..Len(settleOrder) : i < j => settleOrder[i] < settleOrder[j]
  /\ \A t, u \in Tasks : (u < t /\ Started(t)) => settled[u] # "pending"

\* the third task runs its operation after two tasks that were queued
\* together behind the first have been drained in order
C2_Witness ==
  /\ Len(settleOrder) >= 2
  /\ \E t \in Tasks : t > 2 /\ pc[t] = "op"

\* C3: failure isolation - the step in which a task's load or operation
\* fails rejects that task's promise only, leaves the queue and the other
\* tasks as they were and the drain loop ready to continue; and once the
\* drain loop has stopped, no submitted task is left unsettled.
C3_FailureIsolation ==
  [][ /\ \A t \in Tasks :
           (settled[t] = "pending" /\ settled'[t] \in Rejections) =>
             /\ draining = t
             /\ draining' = t
             /\ pc'[t] = "done"
             /\ isProcessingQueue'
             /\ requestQueue' = requestQueue
             /\ \A u \in Tasks \ {t} : settled'[u] = settled[u] /\ pc'[u] = pc[u]
      /\ (~isProcessingQueue') =>
           \A t \in Tasks : pc'[t] \in {"idle", "done"} /\ (pc'[t] = "done" => settled'[t] # "pending")
    ]_vars

\* a task was rejected and a task submitted after it was resolved
C3_Witness ==
  \E t, u \in Tasks :
    /\ t < u
    /\ settled[t] \in Rejections
    /\ settled[u] = "resolved"

\* C4: exactly-once resolution - no promise is settled twice, a promise is
\* settled exactly when its closure has finished, and when the drain loop
\* has stopped every submitted task has been settled exactly once.
C4_ExactlyOnce ==
  /\ \A t \in Tasks :
       /\ settleCount[t] <= 1
       /\ (settleCount[t] = 1) = (settled[t] # "pending")
       /\ (settleCount[t] = 1) = (pc[t] = "done")
  /\ (~isProcessingQueue) => \A t \in Tasks : pc[t] # "idle" => settleCount[t] = 1

\* all tasks settled, by resolution and by rejection
C4_Witness ==
  /\ \A t \in Tasks : settleCount[t] = 1
  /\ \E t \in Tasks : settled[t] = "resolved"
  /\ \E t \in Tasks : settled[t] \in Rejections

LoadErrors == {"memory", "backend"}
OwnLoaders(r) == {c \in Callers : pc[c] \in {"checking", "loading"} /\ target[c] = r}

\* C5 (as claimed): the memory committed to loaded resources plus the bytes
\* held by the priority cache never exceeds the budget of 512.
C5_JointBudget ==
  getCurrentMemoryUsage(modelStatus) + getCacheSize(cacheItems) <= AvailableMemory

\* C6: load admission - with U the committed usage when the check runs and
\* F the footprint, the attempt goes on to the backend load exactly when
\* U + F <= 512; otherwise it ends at once with the insufficient-memory error
\* and U is unchanged; a backend that does not reject then completes the load.
C6_LoadAdmission ==
  [][ \A c \in Callers :
        LET r == target[c]
            U == getCurrentMemoryUsage(modelStatus)
            F == memoryLimit[r]
        IN /\ (pc[c] = "checking" /\ pc'[c] # "checking") =>
                IF U + F <= AvailableMemory
                THEN pc'[c] = "loading" /\ modelStatus' = modelStatus
                ELSE /\ pc'[c] = AfterLoadErr(c)
                     /\ modelStatus'[r].error = "memory"
                     /\ ~modelStatus'[r].isLoaded
                     /\ getCurrentMemoryUsage(modelStatus') = U
           /\ (pc[c] = "loading" /\ pc'[c] # "loading" /\ ~backendFails) =>
                /\ pc'[c] = AfterLoadOk(c)
                /\ modelStatus'[r].isLoaded
                /\ modelStatus'[r].memoryUsage = F
    ]_vars

\* one load was refused for memory while another resource is loaded
C6_Witness ==
  \E r, q \in Resources :
    /\ modelStatus[r].error = "memory"
    /\ IsLoaded(q)
    /\ getCurrentMemoryUsage(modelStatus) + memoryLimit[r] > AvailableMemory

C8_NoDuplicateLoad ==
  [][ /\ \A r \in Resources :
           /\ Cardinality(OwnLoaders(r)') <= 1
           /\ modelStatus'[r].isLoading = (OwnLoaders(r)' # {})
      /\ \A c \in Callers :
           (pc[c] \in {"idle", "queued"} /\ pc'[c] \notin {"idle", "queued"}
              /\ modelStatus[target'[c]].isLoading) =>
             /\ pc'[c] = "waiting"
             /\ modelStatus' = modelStatus
    ]_vars

\* a caller waits on the load another caller has in flight
C8_Witness ==
  \E c, d \in Callers :
    /\ c # d
    /\ target[c] = target[d]
    /\ pc[c] = "loading"
    /\ pc[d] = "waiting"

C10_FailureResets ==
  [][ /\ \A c \in Callers :
           (pc[c] \in {"checking", "loading"} /\ pc'[c] = AfterLoadErr(c)) =>
             /\ modelStatus'[target[c]].error \in LoadErrors
             /\ ~modelStatus'[target[c]].isLoaded
             /\ ~modelStatus'[target[c]].isLoading
             /\ modelStatus'[target[c]].memoryUsage = 0
      /\ \A r \in Resources :
           modelStatus'[r].error \in LoadErrors =>
             /\ ~modelStatus'[r].isLoaded
             /\ ~modelStatus'[r].isLoading
             /\ modelStatus'[r].memoryUsage = 0
      /\ \A c \in Callers :
           (pc[c] \in {"idle", "queued"} /\ pc'[c] \notin {"idle", "queued"}
              /\ modelStatus[target'[c]].error \in LoadErrors) =>
             /\ pc'[c] = "checking"
             /\ modelStatus'[target'[c]].isLoading
             /\ modelStatus'[target'[c]].error = "none"
    ]_vars

\* a direct load of a resource failed, and a task's own attempt on the same
\* resource is now at the backend
C10_Witness ==
  \E d \in Directs, t \in Tasks :
    /\ pc[d] = "ret_err"
    /\ pc[t] = "loading"
    /\ target[t] = target[d]

\* C11 (as claimed): a load that has not completed within the resource's
\* loadTimeout has failed, so no resource is Loading for longer than its
\* loadTimeout.
C11_LoadTimesOut ==
  \A r \in Resources :
    IsLoading(r) => now - modelStatus[r].lastUsed <= loadTimeout[r]

\* C12 (as claimed): in a foregrounded app a Loaded resource stays due for
\* its idle unload until it is unloaded, and it is unloaded no earlier than
\* its delay, releasing exactly its footprint.
C12_IdleUnload ==
  [][ \A r \in Resources :
        (IsLoaded(r) /\ unloadTimer.key = r) =>
          IF modelStatus'[r].isLoaded
          THEN unloadTimer' = unloadTimer
          ELSE /\ now >= modelStatus[r].lastUsed + unloadDelay[r]
               /\ getCurrentMemoryUsage(modelStatus') =
                    getCurrentMemoryUsage(modelStatus) - memoryLimit[r]
    ]_vars

\* C13 (as claimed): a load request that finds the resource Loaded refreshes
\* its last-used time and re-arms its idle-unload timer.
C13_LoadedRequestRearms ==
  [][ \A c \in Callers :
        (pc[c] \in {"idle", "queued"} /\ pc'[c] = AfterLoadOk(c)) =>
          /\ modelStatus'[target'[c]].lastUsed = now
          /\ unloadTimer' = scheduleModelUnload(target'[c])
    ]_vars

\* C14 (as claimed): a call of unloadGemmaModel / unloadTTSModel on a Loaded
\* resource leaves it not loaded, not loading, with no memory committed (the
\* committed total drops by its footprint) and with no idle timer pending
\* for it.
C14_UnloadReleases ==
  [][ \A d \in Directs :
        LET r == target'[d] IN
        (pc[d] = "idle" /\ pc'[d] = "ret_unload" /\ IsLoaded(r)) =>
          /\ ~modelStatus'[r].isLoaded
          /\ ~modelStatus'[r].isLoading
          /\ modelStatus'[r].memoryUsage = 0
          /\ getCurrentMemoryUsage(modelStatus') =
               getCurrentMemoryUsage(modelStatus) - memoryLimit[r]
          /\ unloadTimer'.key # r
    ]_vars

\* C15 (as claimed): when the app-state handler has run for a background or
\* inactive signal, no resource is Loaded.
C15_BackgroundUnloadsAll ==
  [][ (~isBackgrounded /\ isBackgrounded') =>
        \A r \in Resources : ~modelStatus'[r].isLoaded
    ]_vars

Entries(items) == {items[i] : i \in 1..Len(items)}
HighEntries(items) == {items[i] : i \in Priority(items, 1)}

\* C16: the background cleanup - when the handlers have run for a background
\* or inactive signal, the cache holds exactly the High-priority entries it
\* held before, whether or not usage was over the threshold.
C16_BackgroundKeepsHighOnly ==
  [][ (~isBackgrounded /\ isBackgrounded') =>
        /\ Entries(cacheItems') = HighEntries(cacheItems)
        /\ Len(cacheItems') = Cardinality(HighEntries(cacheItems))
    ]_vars

\* backgrounded with usage under the threshold, a High entry in the cache
C16_Witness ==
  /\ isBackgrounded
  /\ ~OverThreshold(cacheItems)
  /\ HighEntries(cacheItems) # {}
  /\ Entries(cacheItems) = HighEntries(cacheItems)

\* C17 (as claimed): a foreground signal changes no resource status, no
\* cache entry and no pending idle-unload timer of a Loaded resource.
C17_ForegroundChangesNothing ==
  [][ (isBackgrounded /\ ~isBackgrounded') =>
        /\ modelStatus' = modelStatus
        /\ cacheItems' = cacheItems
        /\ (unloadTimer.key \in Resources /\ modelStatus[unloadTimer.key].isLoaded) =>
             unloadTimer' = unloadTimer
    ]_vars

\* C18 (as claimed): forceCleanup empties the cache when it is called, and
\* when it completes no resource is Loaded.
C18_ForceCleanupReclaimsAll ==
  [][ \A d \in Directs :
        /\ (pc[d] = "idle" /\ pc'[d] = "forcing") => cacheItems' = <<>>
        /\ (pc[d] = "forcing" /\ pc'[d] = "ret_force") =>
             \A r \in Resources : ~modelStatus'[r].isLoaded
    ]_vars

\* C19: a queued operation that fails after its resource was loaded leaves
\* every resource status as it was (the resource Loaded, its footprint
\* committed), and rejects the promise of that task only.
C19_OperationFailureKeepsLoaded ==
  [][ \A t \in Tasks :
        (pc[t] = "op" /\ IsLoaded(target[t]) /\ settled'[t] \in Rejections) =>
          /\ modelStatus' = modelStatus
          /\ modelStatus'[target[t]].isLoaded
          /\ modelStatus'[target[t]].memoryUsage = memoryLimit[target[t]]
          /\ \A u \in Tasks \ {t} : settled'[u] = settled[u]
    ]_vars

\* a task was rejected, a later one resolved, and both resources are Loaded
C19_Witness ==
  /\ \E t, u \in Tasks : t < u /\ settled[t] \in Rejections /\ settled[u] = "resolved"
  /\ \A r \in Resources : IsLoaded(r) /\ modelStatus[r].memoryUsage = memoryLimit[r]

Expired(it) == now - it.timestamp > CACHE_EXPIRY
HighKept(before, after) ==
  \A it \in HighEntries(before) : ~Expired(it) => it \in Entries(after)

\* C20: the threshold-triggered cleanups keep every non-expired
\* High-priority entry - whatever the cache holds, neither the periodic
\* cleanup nor the check that follows an insert (of any key, overwriting or
\* not) removes one.
C20_HighSurvivesThreshold ==
  /\ HighKept(cacheItems, performPeriodicCleanup(cacheItems))
  /\ HighKept(cacheItems, performMemoryCleanup(cacheItems))
  /\ \A k \in CacheKeys, size \in CacheSizes, priority \in Priorities :
       LET inserted == MapSet(cacheItems, [key |-> k, size |-> size, timestamp |-> now, priority |-> priority])
       IN HighKept(inserted, checkMemoryThreshold(inserted))

\* usage is over the threshold, the periodic cleanup has run, and a High
\* entry that was inserted before that run is still in the cache
C20_Witness ==
  /\ OverThreshold(cacheItems)
  /\ cleanupInterval > CLEANUP_INTERVAL
  /\ \E it \in HighEntries(cacheItems) :
       /\ ~Expired(it)
       /\ it.timestamp < cleanupInterval - CLEANUP_INTERVAL

LowEntries(items) == {items[i] : i \in Priority(items, 3)}
MediumEntries(items) == {items[i] : i \in Priority(items, 2)}
Inserted(k, size, priority) ==
  MapSet(cacheItems, [key |-> k, size |-> size, timestamp |-> now, priority |-> priority])
WithoutLow(items) == LET NotLow(it) == it.priority # 3 IN SelectSeq(items, NotLow)
TierOrder(before, after) ==
  \A it \in MediumEntries(before) :
    (~Expired(it) /\ it \notin Entries(after)) =>
      /\ LowEntries(after) = {}
      /\ OverThreshold(WithoutLow(removeExpiredCacheItems(before)))

\* C21: the tier order of the threshold-triggered cleanups - whatever the
\* cache holds, the periodic cleanup, the memory cleanup and the check that
\* follows an insert remove a non-expired Medium entry only if no Low entry
\* is left afterwards and usage without the Low entries was still over the
\* threshold.
C21_TierOrder ==
  /\ TierOrder(cacheItems, performPeriodicCleanup(cacheItems))
  /\ TierOrder(cacheItems, performMemoryCleanup(cacheItems))
  /\ \A k \in CacheKeys, size \in CacheSizes, priority \in Priorities :
       TierOrder(Inserted(k, size, priority), checkMemoryThreshold(Inserted(k, size, priority)))

\* a Low entry is cached and the insert of a Medium entry under another key
\* goes over the threshold: the check after it removes the Low entry and
\* keeps the Medium one
C21_Witness ==
  \E k \in CacheKeys, size \in CacheSizes :
    LET before == Inserted(k, size, 2)
        after == checkMemoryThreshold(before)
    IN /\ LowEntries(cacheItems) # {}
       /\ OverThreshold(before)
       /\ LowEntries(before) # {} /\ LowEntries(after) = {}
       /\ MediumEntries(after) = MediumEntries(before)
       /\ MediumEntries(after) # {}

NoLowOrMedium(items) == LowEntries(items) = {} /\ MediumEntries(items) = {}

\* C22 (as claimed): the threshold eviction runs to completion - when an
\* insert returns, usage is at or below the threshold or neither a Low nor
\* a Medium entry is left in the cache.
C22_EvictionCompletes ==
  [][ (\E k \in CacheKeys, size \in CacheSizes, priority \in Priorities : AddCacheItem(k, size, priority)) =>
        (~OverThreshold(cacheItems') \/ NoLowOrMedium(cacheItems'))
    ]_vars

OldestFirst(before, after) ==
  LET removed == LowEntries(before) \ Entries(after)
      kept == LowEntries(before) \cap Entries(after)
  IN \A x \in removed, y \in kept : x.timestamp <= y.timestamp

\* C23: oldest first within the Low tier - whatever the cache holds, when
\* the memory cleanup or the check that follows an insert removes some of
\* the non-expired Low entries and keeps others, every removed one has a
\* timestamp no later than every kept one.
C23_OldestFirst ==
  /\ OldestFirst(removeExpiredCacheItems(cacheItems), performMemoryCleanup(cacheItems))
  /\ \A k \in CacheKeys, size \in CacheSizes, priority \in Priorities :
       OldestFirst(removeExpiredCacheItems(Inserted(k, size, priority)),
                   checkMemoryThreshold(Inserted(k, size, priority)))

\* a Low entry is cached, time has passed, and the insert of a second Low
\* entry goes over the threshold: the check after it removes the older entry
\* and keeps the newer one
C23_Witness ==
  \E k \in CacheKeys, size \in CacheSizes :
    LET before == Inserted(k, size, 3)
        after == checkMemoryThreshold(before)
    IN /\ OverThreshold(before)
       /\ \E x \in LowEntries(before) \ Entries(after), y \in LowEntries(before) \cap Entries(after) :
            /\ ~Expired(x)
            /\ x.timestamp < y.timestamp

\* C24 (as claimed): the lookup honours the TTL - whatever the cache holds,
\* a lookup returns an entry only if its age is strictly less than the
\* expiry.
C24_LookupHonoursTTL ==
  \A k \in CacheKeys :
    LET found == getCacheItem(cacheItems, k)
    IN found # NoItem => now - found.timestamp < CACHE_EXPIRY

RECURSIVE SizeOfKeys(_, _)
SizeOfKeys(items, n) ==
  IF n = 0 THEN 0 ELSE getCacheItem(items, n).size + SizeOfKeys(items, n - 1)
KeysOf(items) == {items[i].key : i \in 1..Len(items)}

\* C25: the accounting of the cache - in every state the cache holds at
\* most one entry per key, getCacheStats reports as total size the sum of the
\* sizes of the entries stored under the keys present, and its per-priority
\* counts add up to its item count.
C25_CacheAccounting ==
  LET stats == getCacheStats(cacheItems)
  IN /\ \A i, j \in 1..Len(cacheItems) : cacheItems[i].key = cacheItems[j].key => i = j
     /\ stats.totalItems = Cardinality(KeysOf(cacheItems))
     /\ stats.totalSize = SizeOfKeys(cacheItems, MaxKeys)
     /\ stats.priorityBreakdown[1] + stats.priorityBreakdown[2] + stats.priorityBreakdown[3] = stats.totalItems

\* a key was inserted, a second key after it, and later the first key was
\* inserted again (it kept its place in the Map and has the newer
\* timestamp); the two entries differ in size and priority
C25_Witness ==
  /\ Len(cacheItems) = 2
  /\ cacheItems[1].timestamp > cacheItems[2].timestamp
  /\ cacheItems[1].size # cacheItems[2].size
  /\ cacheItems[1].priority # cacheItems[2].priority
  /\ getCacheStats(cacheItems).totalSize = cacheItems[1].size + cacheItems[2].size

Timestamps == {i * CACHE_EXPIRY : i \in 0..MaxTicks}
HoldsFrom(t) == \E i \in 1..Len(cacheItems) : cacheItems[i].timestamp = t

\* C26: the periodic sweep - while the interval timer stays armed, an entry
\* whose age has exceeded the expiry does not stay in the cache for ever,
\* whether or not anything is inserted, looked up or removed meanwhile:
\* the entries inserted at time t are eventually gone (removed, or replaced
\* by a re-insert).
C26_SweepLiveness ==
  \A t \in Timestamps :
    (HoldsFrom(t) /\ now - t > CACHE_EXPIRY) ~> ~HoldsFrom(t)

\* an entry has outlived the expiry with usage under the threshold, and the
\* interval timer, which ran while the entry was fresh, is armed
C26_Witness ==
  /\ ~OverThreshold(cacheItems)
  /\ cleanupInterval > CLEANUP_INTERVAL
  /\ \E i \in 1..Len(cacheItems) :
       /\ Expired(cacheItems[i])
       /\ cacheItems[i].timestamp < cleanupInterval - CLEANUP_INTERVAL

C27_TranslationCacheBounded ==
  Len(translationCache) <= MaxCacheSize

\* C28 (as claimed): an auto-stopped recording is processed - when the
\* auto-stop completes and runs the onAutoStop callback, the recorded audio
\* goes into processAudioRecording (speech-to-text, then translation), as
\* after a manual stop.
C28_AutoStopProcessed ==
  [][ (svcStop = "auto" /\ svcStop' = "none") => appPc' = "stt" ]_vars

\* C29 (as claimed): the preference rule - English is translated to the
\* preference the app holds when the translation is requested and leaves it
\* unchanged; another language L is translated to English and is the
\* preference, held by the app and read back from the store, when the
\* processing ends.
C29_PreferenceRule ==
  [][ /\ (appPc = "stt" /\ appPc' = "translating") =>
           translatedTo' = IF detected' = "en" THEN userPreference ELSE "en"
      /\ (appPc = "translating" /\ appPc' = "idle") =>
           IF detected = "en"
           THEN userPreference' = userPreference /\ storedPreference' = storedPreference
           ELSE userPreference' = detected /\ loadUserPreference(storedPreference') = detected
    ]_vars

\* C31 (as claimed): every resource has its own idle-unload timer - arming
\* a timer for one resource never replaces the pending timer of a different
\* resource.
C31_OwnIdleTimer ==
  [][ (unloadTimer.key \in Resources /\ unloadTimer'.key \in Resources) =>
        unloadTimer'.key = unloadTimer.key
    ]_vars

\* C32 (as claimed): nothing is loaded in the background - while the app
\* is backgrounded, before and after the step, no resource becomes Loaded.
C32_NoLoadWhileBackgrounded ==
  [][ (isBackgrounded /\ isBackgrounded') =>
        \A r \in Resources : modelStatus'[r].isLoaded => modelStatus[r].isLoaded
    ]_vars

ConsistentStatus(st) ==
  \A r \in Resources :
    /\ ~(st[r].isLoaded /\ st[r].isLoading)
    /\ st[r].memoryUsage = IF st[r].isLoaded THEN memoryLimit[r] ELSE 0

\* C33: status consistency - in every state no resource is both isLoaded
\* and isLoading and its memoryUsage is its configured footprint if it is
\* Loaded and zero otherwise; and on every step a resource that becomes
\* Loaded was Loading before the step.
C33_StatusConsistency ==
  [][ /\ ConsistentStatus(modelStatus)
      /\ ConsistentStatus(modelStatus')
      /\ \A r \in Resources :
           (modelStatus'[r].isLoaded /\ ~modelStatus[r].isLoaded) => modelStatus[r].isLoading
    ]_vars

\* one resource is Loaded with its footprint committed, the load of the
\* other has failed and left it neither Loaded nor Loading with nothing
\* committed
C33_Witness ==
  \E r, q \in Resources :
    /\ modelStatus[r].isLoaded /\ modelStatus[r].memoryUsage = memoryLimit[r]
    /\ modelStatus[q].error \in LoadErrors
    /\ ~modelStatus[q].isLoaded /\ ~modelStatus[q].isLoading /\ modelStatus[q].memoryUsage = 0

\* C34: queue liveness - whenever requestQueue is non-empty the drain loop
\* is running, and every task that was submitted is eventually settled,
\* whether it was submitted to an idle queue, while the loop was running or
\* as it was finishing: a submitted task stays submitted and a settled one
\* stays settled, so again and again no submitted task is pending.
C34_QueueLiveness ==
  /\ [](Len(requestQueue) > 0 => isProcessingQueue)
  /\ []<>(\A t \in Tasks : pc[t] # "idle" => settled[t] # "pending")

\* every task is settled, the last of them after a wait in the queue behind
\* a task that was rejected, and the drain loop has finished
C34_Witness ==
  /\ \A t \in Tasks : settled[t] # "pending"
  /\ \E t \in Tasks : settled[t] \in Rejections
  /\ Len(settleOrder) = MaxTasks
  /\ ~isProcessingQueue

\* the claim's case: the memo holds an entry under the key that has not expired
HoldsUnexpired(k) ==
  \E i \in 1..Len(translationCache) :
    translationCache[i].key = k /\ now - translationCache[i].timestamp < TranslationExpiry
CachedText(k) ==
  translationCache[CHOOSE i \in 1..Len(translationCache) : translationCache[i].key = k].text

\* C35: a call of translateText whose cache key holds an unexpired entry
\* returns the cached text with tokensUsed 0, submits no task and starts no
\* load: the queue, the callers' positions and the resource states are as
\* before the call.
C35_CacheHitBypassesQueue ==
  [][ \A c \in Calls, k \in RequestKeys :
        (/\ translateCalls[c] = NoCall
         /\ translateCalls'[c] # NoCall
         /\ translateCalls'[c].key = k
         /\ HoldsUnexpired(k))
        => /\ translateCalls'[c].at = "hit"
           /\ translateCalls'[c].text = CachedText(k)
           /\ translateCalls'[c].tokensUsed = 0
           /\ UNCHANGED <<queueVars, pc, target, modelStatus, taskVars>> ]_vars

\* a translation came back through the queue and was remembered, and a
\* later call under the same key was answered from the memo
C35_Witness ==
  \E b, c \in Calls :
    /\ translateCalls[b].at = "returned"
    /\ translateCalls[c].at = "hit"
    /\ translateCalls[c].key = translateCalls[b].key
    /\ translateCalls[c].text = translateCalls[b].text
    /\ translateCalls[c].tokensUsed = 0

\* C36 (as claimed): at most one recording is active at a time - in any
\* interleaving of startRecording and stopRecording calls, no Audio.Recording
\* is created while one is held, and a startRecording issued while recording
\* fails with 'Already recording'.
C36_OneRecording ==
  [][ \A c \in RecCalls :
        /\ (recCalls[c] = "createAsync" /\ recCalls'[c] = "started") => ~recording
        /\ (recCalls[c] = "none" /\ recCalls'[c] = "initialize") => ~svcRecording ]_vars

\* the outcomes of a startRecording / stopRecording call at its guard
StartOutcomes == {"initialize", "Already recording"}
StopOutcomes == {"stopping", "Not recording"}

\* C37: recording precondition errors leave the state unchanged -
\* startRecording while isRecording is true throws 'Already recording',
\* stopRecording while not recording throws 'Not recording', and in both
\* cases isRecording, the held recording and the silence timer (with the
\* silence start) are as before the call.
C37_PreconditionErrors ==
  [][ \A c \in RecCalls :
        /\ (recCalls[c] = "none" /\ recCalls'[c] \in StartOutcomes /\ svcRecording)
             => recCalls'[c] = "Already recording"
        /\ (recCalls[c] = "none" /\ recCalls'[c] \in StopOutcomes /\ (~svcRecording \/ ~recording))
             => recCalls'[c] = "Not recording"
        /\ (recCalls[c] = "none" /\ recCalls'[c] \in {"Already recording", "Not recording"})
             => UNCHANGED <<svcRecording, recording, liveRecordings, silenceTimer, silenceStartTime>> ]_vars

\* a recording is held and monitored after a startRecording and a
\* stopRecording call were refused
C37_Witness ==
  /\ \E c \in RecCalls : recCalls[c] = "Already recording"
  /\ \E c \in RecCalls : recCalls[c] = "Not recording"
  /\ svcRecording /\ recording /\ silenceTimer

\* C38: the silence auto-stop fires only after continuous silence - an
\* auto-stop happens only when every sample since the silence start was
\* below the threshold and SILENCE_TIMEOUT has elapsed since that start, a
\* sample at or above the threshold resets the silence start, and while the
\* recording is stopped no monitor timer is pending and no audio level is
\* reported.
C38_SilenceAutoStop ==
  [][ /\ \A c \in RecCalls :
           (recCalls[c] # "autostopping" /\ recCalls'[c] = "autostopping")
             => (quietSince # NoSilence /\ now - quietSince >= SILENCE_TIMEOUT)
      /\ (levelCalls' # levelCalls /\ quietSince' = NoSilence) => silenceStartTime' = NoSilence
      /\ ~svcRecording' => ~silenceTimer'
      /\ (~svcRecording /\ ~svcRecording') => levelCalls' = levelCalls ]_vars

\* an auto-stop after a silence that began later than the recording: a
\* sample at or above the threshold came first
C38_Witness ==
  /\ \E c \in RecCalls : recCalls[c] = "autostopping"
  /\ ~svcRecording /\ ~silenceTimer
  /\ quietSince > 0 /\ now - quietSince >= SILENCE_TIMEOUT

\* the last n elements of a sequence
LastOf(seq, n) == SubSeq(seq, Len(seq) - n + 1, Len(seq))
Min(a, b) == IF a < b THEN a ELSE b

\* C39: the streaming chunk buffer is bounded - it holds at most
\* MAX_AUDIO_CHUNKS chunks, and they are the most recent of the chunks added
\* since it was last emptied, in arrival order.
C39_ChunkBufferBounded ==
  /\ Len(audioChunks) <= MAX_AUDIO_CHUNKS
  /\ audioChunks = LastOf(arrived, Min(Len(arrived), MAX_AUDIO_CHUNKS))

\* more chunks arrived than fit: the oldest were dropped
C39_Witness ==
  /\ Len(arrived) > MAX_AUDIO_CHUNKS + 1
  /\ Len(audioChunks) = MAX_AUDIO_CHUNKS
  /\ audioChunks[1] # arrived[1]

====
